---- MODULE Spec2Model ----
(***************************************************************************)
(* The training cells and the layer stacks of the notebooks                *)
(*   Codes/Session 5/01. convolutional-neural-networks-with-pytorch.ipynb  *)
(*   (ConvNet, ConvNet2, the ConvNet training loop),                       *)
(*   unnamed/part_000 (L1), unnamed/part_001 (Elastic Net, Dropout) and    *)
(*   unnamed/part_002 (L2).                                                *)
(*                                                                         *)
(* A training cell is a sequential script; every statement of the loop     *)
(* body is one action and pc is the position of the script.  Tensors are   *)
(* sequences of integers, and every loss value is a fixed-point number in  *)
(* units of 1/Scale, so that the penalty weights 0.3, 0.7 and 1.0 are the  *)
(* integers 3, 7 and 10.  The numerical kernels of the framework (forward  *)
(* pass, cross entropy, gradient, optimizer update, random generator) are  *)
(* small integer stand-ins with the same data flow: the run is a           *)
(* deterministic function of the seeded generator, as in the notebooks     *)
(* (torch.manual_seed).                                                    *)
(***************************************************************************)
EXTENDS Integers, Sequences, FiniteSets, TLC

(* ------------------------------ bounds -------------------------------- *)

\* seeds of the random generator the model explores: 0..MaxSeed
MaxSeed == 1
\* number of scalar entries of every parameter tensor of the model
TensorLen == 2
\* parameter values are kept within -MaxW..MaxW
MaxW == 3
\* summary() is tried on square inputs of side 28-SideSlack .. 28+SideSlack
SideSlack == 2
\* ConvNet2 is constructed with 1..MaxInChannels input channels
MaxInChannels == 2
\* ConvNet2 is constructed with 10-ClassSlack .. 10+ClassSlack classes
ClassSlack == 1

(* ------------------------- program constants -------------------------- *)

\* fixed-point denominator: the float 1.0 is Scale
Scale == 10
\* i % 500 == 499, current_loss / 500
PrintEvery == 500
\* number of training samples of MNIST(os.getcwd(), download=True, ...)
TrainSetSize == 60000
\* period of the stand-in random generator
RngMod == 16

Notebooks == {"ConvNet", "L1", "L2", "ElasticNet", "Dropout"}
MLPNotebooks == {"L1", "L2", "ElasticNet", "Dropout"}
PenaltyNotebooks == {"L1", "L2", "ElasticNet"}
AccumulatingNotebooks == {"ConvNet", "Dropout"}

\* for epoch in range(0, 3) / range(0, 5)
NumEpochs(n) == IF n = "ConvNet" THEN 3 ELSE 5

\* DataLoader(dataset, batch_size=10 / batch_size=64, ...)
BatchSize(n) == IF n = "ConvNet" THEN 10 ELSE 64

\* len(trainloader): drop_last is not set, so the last partial batch counts
NumBatches(n) == (TrainSetSize + BatchSize(n) - 1) \div BatchSize(n)

\* l1_weight of the loop (0 where the notebook has no L1 component)
L1Weight(n) ==
  CASE n = "L1" -> 10
    [] n = "ElasticNet" -> 3
    [] OTHER -> 0

\* l2_weight of the loop (0 where the notebook has no L2 component)
L2Weight(n) ==
  CASE n = "L2" -> 10
    [] n = "ElasticNet" -> 7
    [] OTHER -> 0

\* torch.optim.Adam(convnet.parameters(), lr=1e-4)
\* torch.optim.AdamW(mlp.parameters(), lr=1e-4[, weight_decay=1.0])
\* lr in units of 1e-4, weight_decay in units of 1/100; where the argument
\* is not given the value is the default of the optimizer class (0 for Adam,
\* 0.01 for AdamW)
OptimizerConfig(n) ==
  CASE n = "ConvNet" -> [kind |-> "Adam", lr |-> 1, weight_decay |-> 0]
    [] n = "Dropout" -> [kind |-> "AdamW", lr |-> 1, weight_decay |-> 100]
    [] OTHER -> [kind |-> "AdamW", lr |-> 1, weight_decay |-> 1]

\* number of tensors returned by parameters(): weight and bias per layer
NumTensors(n) == IF n = "ConvNet" THEN 10 ELSE 6

\* mutant: the test written as i % 500 == 0
ShouldPrint_AtZero(k) == k % PrintEvery = 0

\* the if i % 500 == 499 test of the statistics block
ShouldPrint(k) == k % PrintEvery = PrintEvery - 1

(* ----------------------- tensor helper functions ---------------------- *)

Abs(x) == IF x < 0 THEN -x ELSE x

Sign(x) == IF x > 0 THEN 1 ELSE IF x < 0 THEN -1 ELSE 0

Clamp(x) == IF x > MaxW THEN MaxW ELSE IF x < -MaxW THEN -MaxW ELSE x

RECURSIVE SumSeq(_)
SumSeq(s) == IF s = <<>> THEN 0 ELSE Head(s) + SumSeq(Tail(s))

\* torch.cat(list of parameter.view(-1))
RECURSIVE Cat(_)
Cat(ts) == IF ts = <<>> THEN <<>> ELSE Head(ts) \o Cat(Tail(ts))

\* mutant: the sum without the absolute value
compute_l1_loss_NoAbs(w) == SumSeq(w)

\* torch.abs(w).sum()
compute_l1_loss(w) == SumSeq([k \in 1..Len(w) |-> Abs(w[k])])

\* mutant: w * |w| is summed, which keeps the sign of every parameter
compute_l2_loss_Signed(w) == SumSeq([k \in 1..Len(w) |-> w[k] * Abs(w[k])])

\* mutant: absolute values in place of squares
compute_l2_loss_Abs(w) == SumSeq([k \in 1..Len(w) |-> Abs(w[k])])

\* torch.square(w).sum()
compute_l2_loss(w) == SumSeq([k \in 1..Len(w) |-> w[k] * w[k]])

(* ---------------------------- layer stacks ---------------------------- *)

Conv2d(cin, cout, k, pad) ==
  [type |-> "Conv2d", in |-> cin, out |-> cout, k |-> k, stride |-> 1,
   pad |-> pad]
MaxPool2d(k, stride) ==
  [type |-> "MaxPool2d", in |-> 0, out |-> 0, k |-> k, stride |-> stride,
   pad |-> 0]
Linear(fin, fout) ==
  [type |-> "Linear", in |-> fin, out |-> fout, k |-> 0, stride |-> 0,
   pad |-> 0]
ReLU == [type |-> "ReLU", in |-> 0, out |-> 0, k |-> 0, stride |-> 0, pad |-> 0]
Flatten ==
  [type |-> "Flatten", in |-> 0, out |-> 0, k |-> 0, stride |-> 0, pad |-> 0]
Dropout ==
  [type |-> "Dropout", in |-> 0, out |-> 0, k |-> 0, stride |-> 0, pad |-> 0]

\* ConvNet.__init__: self.layers = nn.Sequential(...)
ConvNetLayers ==
  << Conv2d(1, 10, 3, 0),
     ReLU,
     Conv2d(10, 5, 3, 0),
     ReLU,
     Flatten,
     Linear(24 * 24 * 5, 64),
     ReLU,
     Linear(64, 32),
     ReLU,
     Linear(32, 10) >>

\* ConvNet2.__init__(num_of_input_channels=1, num_of_classes=10,
\*                   dropout_prob=0.2): self.layers = nn.Sequential(...)
ConvNet2Layers(num_of_input_channels, num_of_classes) ==
  << Conv2d(num_of_input_channels, 32, 3, 0),
     ReLU,
     MaxPool2d(2, 2),
     Conv2d(32, 64, 3, 0),
     ReLU,
     MaxPool2d(2, 2),
     Conv2d(64, 128, 3, 1),
     ReLU,
     MaxPool2d(2, 2),
     Conv2d(128, 64, 3, 1),
     ReLU,
     MaxPool2d(2, 2),
     Flatten,
     Linear(64, 128),
     ReLU,
     Dropout,
     Linear(128, num_of_classes) >>

\* mutant: the second Linear layer expects 32 features where 64 arrive
MLPLayers_Mismatch ==
  << Flatten,
     Linear(28 * 28 * 1, 64),
     ReLU,
     Linear(32, 32),
     ReLU,
     Linear(32, 10) >>

\* MLP.__init__ of the L1, L2 and Elastic Net notebooks:
\* self.layers = nn.Sequential(...)
MLPLayers ==
  << Flatten,
     Linear(28 * 28 * 1, 64),
     ReLU,
     Linear(64, 32),
     ReLU,
     Linear(32, 10) >>

\* MLP.__init__ of the Dropout notebook
DropoutMLPLayers ==
  << Flatten,
     Linear(28 * 28 * 1, 64),
     Dropout,
     ReLU,
     Linear(64, 32),
     Dropout,
     ReLU,
     Linear(32, 10) >>

Networks == {"ConvNet", "ConvNet2", "L1", "L2", "ElasticNet", "Dropout"}

LayersOf(n, cin, ncls) ==
  CASE n = "ConvNet" -> ConvNetLayers
    [] n = "ConvNet2" -> ConvNet2Layers(cin, ncls)
    [] n = "Dropout" -> DropoutMLPLayers
    [] OTHER -> MLPLayers

\* mutant: the output size of a convolution without the final + 1
Conv2dOut_NoPlusOne(h, k, stride, pad) == (h + 2 * pad - k) \div stride

\* nn.Conv2d: output side for input side h (dilation 1)
Conv2dOut(h, k, stride, pad) == (h + 2 * pad - k) \div stride + 1

\* mutant: pooling that rounds up (ceil_mode)
MaxPool2dOut_Ceil(h, k, stride) == (h - k + stride - 1) \div stride + 1

\* nn.MaxPool2d: output side for input side h (no padding, floor mode)
MaxPool2dOut(h, k, stride) == (h - k) \div stride + 1

RECURSIVE Product(_)
Product(sh) == IF sh = <<>> THEN 1 ELSE Head(sh) * Product(Tail(sh))

\* whether the layer runs on an input of shape sh (without the batch
\* dimension); otherwise the forward pass raises
LayerAccepts(L, sh) ==
  CASE L.type = "Conv2d" ->
         /\ Len(sh) = 3
         /\ sh[1] = L.in
         /\ sh[2] + 2 * L.pad >= L.k
         /\ sh[3] + 2 * L.pad >= L.k
    [] L.type = "MaxPool2d" -> Len(sh) = 3 /\ sh[2] >= L.k /\ sh[3] >= L.k
    [] L.type = "Linear" -> Len(sh) >= 1 /\ sh[Len(sh)] = L.in
    [] OTHER -> TRUE

\* the shape of the layer's output
LayerOut(L, sh) ==
  CASE L.type = "Conv2d" ->
         << L.out, Conv2dOut(sh[2], L.k, L.stride, L.pad),
            Conv2dOut(sh[3], L.k, L.stride, L.pad) >>
    [] L.type = "MaxPool2d" ->
         << sh[1], MaxPool2dOut(sh[2], L.k, L.stride),
            MaxPool2dOut(sh[3], L.k, L.stride) >>
    [] L.type = "Flatten" -> << Product(sh) >>
    [] L.type = "Linear" -> SubSeq(sh, 1, Len(sh) - 1) \o << L.out >>
    [] OTHER -> sh

\* mutant: the bias vector is not counted
LayerParams_NoBias(L) ==
  CASE L.type = "Conv2d" -> Product(<< L.out, L.in, L.k, L.k >>)
    [] L.type = "Linear" -> Product(<< L.out, L.in >>)
    [] OTHER -> 0

\* the number of entries of the layer's weight and bias tensors
LayerParams(L) ==
  CASE L.type = "Conv2d" -> Product(<< L.out, L.in, L.k, L.k >>) + L.out
    [] L.type = "Linear" -> Product(<< L.out, L.in >>) + L.out
    [] OTHER -> 0

(* ------------------------ framework stand-ins ------------------------- *)

\* the seeded generator behind shuffling, initialisation and dropout
NextRng(r) == (5 * r + 3) % RngMod

\* the minibatch the loader yields for generator state r
BatchInputs(r) == 1 + (r % 2)
BatchTargets(r) == ((r \div 2) % 5) - 2

\* MLP() / ConvNet(): freshly initialised parameter tensors
InitParams(n, seed) ==
  [t \in 1..NumTensors(n) |->
     [k \in 1..TensorLen |-> ((seed + 2 * t + 3 * k) % (2 * MaxW + 1)) - MaxW]]

ZeroTensors(n) == [t \in 1..NumTensors(n) |-> [k \in 1..TensorLen |-> 0]]

\* nn.Dropout(p=0.5) in training mode: the tensors whose units are dropped
\* in this forward pass; the other notebooks drop nothing
DropMask(n, r) ==
  IF n = "Dropout"
    THEN {t \in 1..NumTensors(n) : ((r \div (2 * t)) % 2) = 1 /\ t < NumTensors(n) - 1}
    ELSE {}

\* self.layers(x): a linear read-out of the active parameters
Forward(p, x, dropped) ==
  x * SumSeq([t \in 1..Len(p) |-> IF t \in dropped THEN 0 ELSE SumSeq(p[t])])

\* nn.CrossEntropyLoss(): a non-negative loss in units of 1/Scale
CrossEntropy(o, t) == Scale * Abs(o - t)

\* d loss / d parameter for the loss value that backward() is called on
LossGradient(n, p, x, o, t, dropped, withPenalty) ==
  [a \in 1..Len(p) |-> [k \in 1..Len(p[a]) |->
     (IF a \in dropped THEN 0 ELSE Scale * Sign(o - t) * x)
     + (IF withPenalty
          THEN L1Weight(n) * Sign(p[a][k]) + L2Weight(n) * 2 * p[a][k]
          ELSE 0)]]

\* Adam / AdamW update: decoupled weight decay, then a step against the
\* sign of the gradient
OptimizerUpdate(n, p, g) ==
  [a \in 1..Len(p) |-> [k \in 1..Len(p[a]) |->
     Clamp(p[a][k]
           - Sign(p[a][k])
               * ((OptimizerConfig(n).lr * OptimizerConfig(n).weight_decay
                   * Abs(p[a][k])) \div 100)
           - OptimizerConfig(n).lr * Sign(g[a][k]))]]

(* ------------------------------- state -------------------------------- *)

VARIABLES
  nb,             \* which notebook's training cell runs
  pc,             \* position in the script
  rng,            \* state of the seeded random generator
  epoch,          \* for epoch in range(0, E)
  i,              \* for i, data in enumerate(trainloader, 0)
  inputs, targets,\* inputs, targets = data
  dropped,        \* units dropped by the Dropout layers in the last forward
  outputs,        \* outputs = mlp(inputs)
  loss,           \* loss
  l1, l2,         \* penalty components
  params,         \* mlp.parameters()
  grad,           \* the .grad of every parameter
  current_loss,   \* running loss accumulator (ConvNet, Dropout)
  minibatch_loss, \* loss.item() of the last minibatch (L1, L2, Elastic Net)
  out,            \* lines printed so far
  steps,          \* history: statements executed in the current iteration
  lossSum,        \* history: sum of loss.item() over the minibatches of
                  \* this epoch so far
  sumAt,          \* history: sumAt[k] is lossSum after minibatch 500*k
  before,         \* history: parameters at the start of the iteration
  optSteps,       \* history: number of optimizer.step() calls of the run
  net,            \* the network handed to summary(), "none" in a training cell
  ctor,           \* the arguments the network was constructed with
  input,          \* the input size handed to summary()
  layer,          \* number of layers of the stack already applied
  shape,          \* shape of the activation after these layers
  summary,        \* rows of the summary table printed so far
  totals,         \* the totals under the table, <<>> until printed
  raised          \* the forward pass raised a shape error

vars == <<nb, pc, rng, epoch, i, inputs, targets, dropped, outputs, loss, l1,
          l2, params, grad, current_loss, minibatch_loss, out, steps,
          lossSum, sumAt, before, optSteps, net, ctor, input, layer, shape,
          summary, totals, raised>>

trainVars == <<nb, pc, rng, epoch, i, inputs, targets, dropped, outputs, loss,
               l1, l2, params, grad, current_loss, minibatch_loss, out,
               steps, lossSum, sumAt, before, optSteps>>

shapeVars == <<net, ctor, input, layer, shape, summary, totals, raised>>

(* ------------------------------- Init --------------------------------- *)

\* the cell up to and including the construction of the optimizer
Init ==
  /\ nb \in Notebooks
  /\ \E seed \in 0..MaxSeed :
       /\ rng = NextRng(seed)
       /\ params = InitParams(nb, seed)
  /\ pc = "epoch"
  /\ epoch = 0
  /\ i = 0
  /\ inputs = 0
  /\ targets = 0
  /\ dropped = {}
  /\ outputs = 0
  /\ loss = 0
  /\ l1 = 0
  /\ l2 = 0
  /\ grad = ZeroTensors(nb)
  /\ current_loss = 0
  /\ minibatch_loss = 0
  /\ out = <<>>
  /\ steps = <<>>
  /\ lossSum = 0
  /\ sumAt = <<>>
  /\ before = params
  /\ optSteps = 0
  /\ net = "none"
  /\ ctor = [num_of_input_channels |-> 1, num_of_classes |-> 10]
  /\ input = <<>>
  /\ layer = 0
  /\ shape = <<>>
  /\ summary = <<>>
  /\ totals = <<>>
  /\ raised = FALSE

(* ------------------------------ actions ------------------------------- *)

\* for epoch in range(0, E): print(f'Starting epoch {epoch+1}');
\* current_loss = 0.0 where the notebook has the accumulator
StartEpoch ==
  /\ pc = "epoch"
  /\ epoch < NumEpochs(nb)
  /\ out' = Append(out, [kind |-> "epoch", idx |-> epoch + 1, num |-> 0,
                         den |-> 1, l1 |-> 0, l2 |-> 0])
  /\ current_loss' = IF nb \in AccumulatingNotebooks THEN 0 ELSE current_loss
  /\ i' = 0
  /\ lossSum' = 0
  /\ sumAt' = <<>>
  /\ pc' = "batch"
  /\ UNCHANGED <<nb, rng, epoch, inputs, targets, dropped, outputs, loss, l1,
                 l2, params, grad, minibatch_loss, steps, before>>
  /\ UNCHANGED optSteps
  /\ UNCHANGED shapeVars

\* for i, data in enumerate(trainloader, 0): inputs, targets = data
NextBatch ==
  /\ pc = "batch"
  /\ i < NumBatches(nb)
  /\ inputs' = BatchInputs(rng)
  /\ targets' = BatchTargets(rng)
  /\ rng' = NextRng(rng)
  /\ steps' = <<>>
  /\ before' = params
  /\ pc' = "zero_grad"
  /\ UNCHANGED <<nb, epoch, i, dropped, outputs, loss, l1, l2, params, grad,
                 current_loss, minibatch_loss, out, lossSum,
                 sumAt>>
  /\ UNCHANGED optSteps
  /\ UNCHANGED shapeVars

\* mutant: the epoch may end before the data loader is exhausted
EndEpoch_Early ==
  /\ pc = "batch"
  /\ i >= PrintEvery
  /\ epoch' = epoch + 1
  /\ pc' = "epoch"
  /\ UNCHANGED <<nb, rng, i, inputs, targets, dropped, outputs, loss, l1, l2,
                 params, grad, current_loss, minibatch_loss, out, steps,
                 lossSum, sumAt, before>>
  /\ UNCHANGED optSteps
  /\ UNCHANGED shapeVars

\* the data loader is exhausted: the next epoch
EndEpoch ==
  /\ pc = "batch"
  /\ i >= NumBatches(nb)
  /\ epoch' = epoch + 1
  /\ pc' = "epoch"
  /\ UNCHANGED <<nb, rng, i, inputs, targets, dropped, outputs, loss, l1, l2,
                 params, grad, current_loss, minibatch_loss, out, steps,
                 lossSum, sumAt, before>>
  /\ UNCHANGED optSteps
  /\ UNCHANGED shapeVars

\* mutant: optimizer.zero_grad() is forgotten
ZeroGrad_Noop ==
  /\ pc = "zero_grad"
  /\ grad' = grad
  /\ steps' = Append(steps, "zero_grad")
  /\ pc' = "forward"
  /\ UNCHANGED <<nb, rng, epoch, i, inputs, targets, dropped, outputs, loss,
                 l1, l2, params, current_loss, minibatch_loss, out, lossSum, sumAt,
                 before>>
  /\ UNCHANGED optSteps
  /\ UNCHANGED shapeVars

\* optimizer.zero_grad()
ZeroGrad ==
  /\ pc = "zero_grad"
  /\ grad' = ZeroTensors(nb)
  /\ steps' = Append(steps, "zero_grad")
  /\ pc' = "forward"
  /\ UNCHANGED <<nb, rng, epoch, i, inputs, targets, dropped, outputs, loss,
                 l1, l2, params, current_loss, minibatch_loss, out, lossSum, sumAt,
                 before>>
  /\ UNCHANGED optSteps
  /\ UNCHANGED shapeVars

\* outputs = mlp(inputs) / convnet(inputs)
ForwardPass ==
  /\ pc = "forward"
  /\ dropped' = DropMask(nb, rng)
  /\ rng' = IF nb = "Dropout" THEN NextRng(rng) ELSE rng
  /\ outputs' = Forward(params, inputs, dropped')
  /\ steps' = Append(steps, "forward")
  /\ pc' = "loss"
  /\ UNCHANGED <<nb, epoch, i, inputs, targets, loss, l1, l2, params, grad,
                 current_loss, minibatch_loss, out, lossSum,
                 sumAt, before>>
  /\ UNCHANGED optSteps
  /\ UNCHANGED shapeVars

\* mutant: the penalty block is skipped
ComputeLoss_SkipPenalty ==
  /\ pc = "loss"
  /\ loss' = CrossEntropy(outputs, targets)
  /\ steps' = Append(steps, "loss")
  /\ pc' = "backward"
  /\ UNCHANGED <<nb, rng, epoch, i, inputs, targets, dropped, outputs, l1, l2,
                 params, grad, current_loss, minibatch_loss, out, lossSum, sumAt,
                 before>>
  /\ UNCHANGED optSteps
  /\ UNCHANGED shapeVars

\* loss = loss_function(outputs, targets)
ComputeLoss ==
  /\ pc = "loss"
  /\ loss' = CrossEntropy(outputs, targets)
  /\ steps' = Append(steps, "loss")
  /\ pc' = IF nb \in PenaltyNotebooks THEN "penalty" ELSE "backward"
  /\ UNCHANGED <<nb, rng, epoch, i, inputs, targets, dropped, outputs, l1, l2,
                 params, grad, current_loss, minibatch_loss, out, lossSum, sumAt,
                 before>>
  /\ UNCHANGED optSteps
  /\ UNCHANGED shapeVars

\* mutant: only the weight matrices are collected, the bias vectors are not
ComputePenalty_WeightsOnly ==
  /\ pc = "penalty"
  /\ LET weights == [t \in 1..(Len(params) \div 2) |-> params[2 * t - 1]]
     IN /\ l1' = IF nb \in {"L1", "ElasticNet"}
                   THEN L1Weight(nb) * compute_l1_loss(Cat(weights)) ELSE l1
        /\ l2' = IF nb \in {"L2", "ElasticNet"}
                   THEN L2Weight(nb) * compute_l2_loss(Cat(weights)) ELSE l2
  /\ steps' = Append(steps, "penalty")
  /\ pc' = "add_penalty"
  /\ UNCHANGED <<nb, rng, epoch, i, inputs, targets, dropped, outputs, loss,
                 params, grad, current_loss, minibatch_loss, out, lossSum, sumAt,
                 before>>
  /\ UNCHANGED optSteps
  /\ UNCHANGED shapeVars

\* l1 = l1_weight * mlp.compute_l1_loss(torch.cat(parameters))
\* l2 = l2_weight * mlp.compute_l2_loss(torch.cat(parameters))
ComputePenalty ==
  /\ pc = "penalty"
  /\ l1' = IF nb \in {"L1", "ElasticNet"}
             THEN L1Weight(nb) * compute_l1_loss(Cat(params)) ELSE l1
  /\ l2' = IF nb \in {"L2", "ElasticNet"}
             THEN L2Weight(nb) * compute_l2_loss(Cat(params)) ELSE l2
  /\ steps' = Append(steps, "penalty")
  /\ pc' = "add_penalty"
  /\ UNCHANGED <<nb, rng, epoch, i, inputs, targets, dropped, outputs, loss,
                 params, grad, current_loss, minibatch_loss, out, lossSum, sumAt,
                 before>>
  /\ UNCHANGED optSteps
  /\ UNCHANGED shapeVars

\* mutant: loss += l2 is forgotten in the Elastic Net loop
AddPenalty_OnlyL1 ==
  /\ pc = "add_penalty"
  /\ loss' = CASE nb = "L1" -> loss + l1
               [] nb = "L2" -> loss + l2
               [] OTHER -> loss + l1
  /\ steps' = Append(steps, "add_penalty")
  /\ pc' = "backward"
  /\ UNCHANGED <<nb, rng, epoch, i, inputs, targets, dropped, outputs, l1, l2,
                 params, grad, current_loss, minibatch_loss, out, lossSum, sumAt,
                 before>>
  /\ UNCHANGED optSteps
  /\ UNCHANGED shapeVars

\* loss += l1 / loss += l2 / loss += l1; loss += l2
AddPenalty ==
  /\ pc = "add_penalty"
  /\ loss' = CASE nb = "L1" -> loss + l1
               [] nb = "L2" -> loss + l2
               [] OTHER -> (loss + l1) + l2
  /\ steps' = Append(steps, "add_penalty")
  /\ pc' = "backward"
  /\ UNCHANGED <<nb, rng, epoch, i, inputs, targets, dropped, outputs, l1, l2,
                 params, grad, current_loss, minibatch_loss, out, lossSum, sumAt,
                 before>>
  /\ UNCHANGED optSteps
  /\ UNCHANGED shapeVars

\* loss.backward(): the gradient of loss is added to every .grad
Backward ==
  /\ pc = "backward"
  /\ LET g == LossGradient(nb, params, inputs, outputs, targets, dropped,
                           nb \in PenaltyNotebooks)
     IN grad' = [a \in 1..Len(grad) |-> [k \in 1..Len(grad[a]) |->
                   grad[a][k] + g[a][k]]]
  /\ steps' = Append(steps, "backward")
  /\ pc' = "step"
  /\ UNCHANGED <<nb, rng, epoch, i, inputs, targets, dropped, outputs, loss,
                 l1, l2, params, current_loss, minibatch_loss, out, lossSum, sumAt,
                 before>>
  /\ UNCHANGED optSteps
  /\ UNCHANGED shapeVars

\* optimizer.step()
OptimizerStep ==
  /\ pc = "step"
  /\ params' = OptimizerUpdate(nb, params, grad)
  /\ steps' = Append(steps, "step")
  /\ pc' = "stats"
  /\ UNCHANGED <<nb, rng, epoch, i, inputs, targets, dropped, outputs, loss,
                 l1, l2, grad, current_loss, minibatch_loss, out, lossSum, sumAt,
                 before>>
  /\ optSteps' = optSteps + 1
  /\ UNCHANGED shapeVars

\* mutant: current_loss = 0.0 after the print is forgotten
AccumulateStatistics_NoReset ==
  /\ pc = "stats"
  /\ nb \in AccumulatingNotebooks
  /\ lossSum' = lossSum + loss
  /\ sumAt' = IF (i + 1) % 500 = 0 THEN Append(sumAt, lossSum') ELSE sumAt
  /\ out' = IF ShouldPrint(i)
              THEN Append(out, [kind |-> "loss", idx |-> i + 1,
                                num |-> current_loss + loss,
                                den |-> PrintEvery, l1 |-> 0, l2 |-> 0])
              ELSE out
  /\ current_loss' = current_loss + loss
  /\ i' = i + 1
  /\ pc' = "batch"
  /\ UNCHANGED <<nb, rng, epoch, inputs, targets, dropped, outputs, loss, l1,
                 l2, params, grad, minibatch_loss, steps, before>>
  /\ UNCHANGED optSteps
  /\ UNCHANGED shapeVars

\* ConvNet, Dropout:  current_loss += loss.item()
\*                    if i % 500 == 499: print(i + 1, current_loss / 500);
\*                                       current_loss = 0.0
AccumulateStatistics ==
  /\ pc = "stats"
  /\ nb \in AccumulatingNotebooks
  /\ lossSum' = lossSum + loss
  /\ sumAt' = IF (i + 1) % 500 = 0 THEN Append(sumAt, lossSum') ELSE sumAt
  /\ IF ShouldPrint(i)
       THEN /\ out' = Append(out, [kind |-> "loss", idx |-> i + 1,
                                   num |-> current_loss + loss,
                                   den |-> PrintEvery, l1 |-> 0, l2 |-> 0])
            /\ current_loss' = 0
       ELSE /\ out' = out
            /\ current_loss' = current_loss + loss
  /\ i' = i + 1
  /\ pc' = "batch"
  /\ UNCHANGED <<nb, rng, epoch, inputs, targets, dropped, outputs, loss, l1,
                 l2, params, grad, minibatch_loss, steps, before>>
  /\ UNCHANGED optSteps
  /\ UNCHANGED shapeVars

\* mutant: the statistics block of the Dropout cell left in place in the
\* penalty loops (running mean instead of the minibatch loss)
MinibatchStatistics_RunningMean ==
  /\ pc = "stats"
  /\ nb \in PenaltyNotebooks
  /\ lossSum' = lossSum + loss
  /\ sumAt' = IF (i + 1) % 500 = 0 THEN Append(sumAt, lossSum') ELSE sumAt
  /\ minibatch_loss' = loss
  /\ IF ShouldPrint(i)
       THEN /\ out' = Append(out, [kind |-> "loss", idx |-> i + 1,
                                   num |-> current_loss + loss,
                                   den |-> PrintEvery, l1 |-> 0, l2 |-> 0])
            /\ current_loss' = 0
       ELSE /\ out' = out
            /\ current_loss' = current_loss + loss
  /\ i' = i + 1
  /\ pc' = "batch"
  /\ UNCHANGED <<nb, rng, epoch, inputs, targets, dropped, outputs, loss, l1,
                 l2, params, grad, steps, before>>
  /\ UNCHANGED optSteps
  /\ UNCHANGED shapeVars

\* mutant: the printed penalty is recomputed from the parameters, after
\* optimizer.step()
MinibatchStatistics_PenaltyAfterStep ==
  /\ pc = "stats"
  /\ nb \in PenaltyNotebooks
  /\ lossSum' = lossSum + loss
  /\ sumAt' = IF (i + 1) % 500 = 0 THEN Append(sumAt, lossSum') ELSE sumAt
  /\ minibatch_loss' = loss
  /\ out' = IF ShouldPrint(i)
              THEN Append(out, [kind |-> "loss", idx |-> i + 1, num |-> loss,
                                den |-> 1,
                                l1 |-> L1Weight(nb)
                                         * compute_l1_loss(Cat(params)),
                                l2 |-> L2Weight(nb)
                                         * compute_l2_loss(Cat(params))])
              ELSE out
  /\ i' = i + 1
  /\ pc' = "batch"
  /\ UNCHANGED <<nb, rng, epoch, inputs, targets, dropped, outputs, loss, l1,
                 l2, params, grad, current_loss, steps, before>>
  /\ UNCHANGED optSteps
  /\ UNCHANGED shapeVars

\* L1, L2, Elastic Net:  minibatch_loss = loss.item()
\*                       if i % 500 == 499: print(i + 1, minibatch_loss, l1, l2)
MinibatchStatistics ==
  /\ pc = "stats"
  /\ nb \in PenaltyNotebooks
  /\ lossSum' = lossSum + loss
  /\ sumAt' = IF (i + 1) % 500 = 0 THEN Append(sumAt, lossSum') ELSE sumAt
  /\ minibatch_loss' = loss
  /\ out' = IF ShouldPrint(i)
              THEN Append(out, [kind |-> "loss", idx |-> i + 1, num |-> loss,
                                den |-> 1,
                                l1 |-> IF nb = "L2" THEN 0 ELSE l1,
                                l2 |-> IF nb = "L1" THEN 0 ELSE l2])
              ELSE out
  /\ i' = i + 1
  /\ pc' = "batch"
  /\ UNCHANGED <<nb, rng, epoch, inputs, targets, dropped, outputs, loss, l1,
                 l2, params, grad, current_loss, steps, before>>
  /\ UNCHANGED optSteps
  /\ UNCHANGED shapeVars

\* print('Training process has finished.')
Finish ==
  /\ pc = "epoch"
  /\ epoch >= NumEpochs(nb)
  /\ out' = Append(out, [kind |-> "finished", idx |-> 0, num |-> 0, den |-> 1,
                         l1 |-> 0, l2 |-> 0])
  /\ pc' = "done"
  /\ UNCHANGED <<nb, rng, epoch, i, inputs, targets, dropped, outputs, loss,
                 l1, l2, params, grad, current_loss, minibatch_loss, steps,
                 lossSum, sumAt, before>>
  /\ UNCHANGED optSteps
  /\ UNCHANGED shapeVars

Next ==
  \/ StartEpoch
  \/ NextBatch
  \/ EndEpoch
  \/ ZeroGrad
  \/ ForwardPass
  \/ ComputeLoss
  \/ ComputePenalty
  \/ AddPenalty
  \/ Backward
  \/ OptimizerStep
  \/ AccumulateStatistics
  \/ MinibatchStatistics
  \/ Finish

Spec == Init /\ [][Next]_vars

\* the interpreter runs the script to its end: it never stops between two
\* statements
SpecFair == Spec /\ WF_vars(Next)

(* ------------------- summary(convnet, (1, 28, 28)) -------------------- *)

\* convnet = ConvNet() / ConvNet2(...); summary(convnet, input_size): the
\* network, its constructor arguments and the input size are the inputs
InitSummary ==
  /\ net \in {"ConvNet", "ConvNet2"}
  /\ ctor \in [num_of_input_channels : 1..MaxInChannels,
               num_of_classes : (10 - ClassSlack)..(10 + ClassSlack)]
  /\ net = "ConvNet" => ctor = [num_of_input_channels |-> 1,
                                num_of_classes |-> 10]
  /\ \E side \in (28 - SideSlack)..(28 + SideSlack) : input = <<1, side, side>>
  /\ layer = 0
  /\ shape = input
  /\ summary = <<>>
  /\ totals = <<>>
  /\ raised = FALSE
  /\ nb = "ConvNet"
  /\ pc = "summary"
  /\ rng = 0
  /\ params = InitParams(nb, 0)
  /\ epoch = 0
  /\ i = 0
  /\ inputs = 0
  /\ targets = 0
  /\ dropped = {}
  /\ outputs = 0
  /\ loss = 0
  /\ l1 = 0
  /\ l2 = 0
  /\ grad = ZeroTensors(nb)
  /\ current_loss = 0
  /\ minibatch_loss = 0
  /\ out = <<>>
  /\ steps = <<>>
  /\ lossSum = 0
  /\ sumAt = <<>>
  /\ before = params
  /\ optSteps = 0

Layers == LayersOf(net, ctor.num_of_input_channels, ctor.num_of_classes)

\* the forward hook of the next layer of self.layers: one row of the table
ApplyLayer ==
  /\ pc = "summary"
  /\ ~raised
  /\ layer < Len(Layers)
  /\ LayerAccepts(Layers[layer + 1], shape)
  /\ shape' = LayerOut(Layers[layer + 1], shape)
  /\ summary' = Append(summary, [type |-> Layers[layer + 1].type,
                                 shape |-> shape',
                                 params |-> LayerParams(Layers[layer + 1])])
  /\ layer' = layer + 1
  /\ UNCHANGED <<net, ctor, input, totals, raised>>
  /\ UNCHANGED trainVars

\* the next layer does not accept its input: the forward pass raises
RaiseShapeError ==
  /\ pc = "summary"
  /\ ~raised
  /\ layer < Len(Layers)
  /\ ~LayerAccepts(Layers[layer + 1], shape)
  /\ raised' = TRUE
  /\ UNCHANGED <<net, ctor, input, layer, shape, summary, totals>>
  /\ UNCHANGED trainVars

\* Total params / Trainable params / Non-trainable params
PrintTotals ==
  /\ pc = "summary"
  /\ ~raised
  /\ layer = Len(Layers)
  /\ totals = <<>>
  /\ LET total == SumSeq([k \in 1..Len(summary) |-> summary[k].params])
     IN totals' = [total |-> total, trainable |-> total,
                   non_trainable |-> total - total]
  /\ UNCHANGED <<net, ctor, input, layer, shape, summary, raised>>
  /\ UNCHANGED trainVars

NextSummary ==
  \/ ApplyLayer
  \/ RaiseShapeError
  \/ PrintTotals

SpecSummary == InitSummary /\ [][NextSummary]_vars

(* ------------------------ self.layers(x) alone ------------------------ *)

\* net = MLP() / ConvNet() / ConvNet2(...); net(x): the forward pass of one
\* of the repository's networks on one image, layer by layer as in
\* summary() but for every network; the image size is an input
InitForward ==
  /\ net \in Networks
  /\ ctor \in [num_of_input_channels : 1..MaxInChannels,
               num_of_classes : (10 - ClassSlack)..(10 + ClassSlack)]
  /\ net # "ConvNet2" => ctor = [num_of_input_channels |-> 1,
                                 num_of_classes |-> 10]
  /\ \E side \in (28 - SideSlack)..(28 + SideSlack) : input = <<1, side, side>>
  /\ layer = 0
  /\ shape = input
  /\ summary = <<>>
  /\ totals = <<>>
  /\ raised = FALSE
  /\ nb = IF net = "ConvNet2" THEN "ConvNet" ELSE net
  /\ pc = "summary"
  /\ rng = 0
  /\ params = InitParams(nb, 0)
  /\ epoch = 0
  /\ i = 0
  /\ inputs = 0
  /\ targets = 0
  /\ dropped = {}
  /\ outputs = 0
  /\ loss = 0
  /\ l1 = 0
  /\ l2 = 0
  /\ grad = ZeroTensors(nb)
  /\ current_loss = 0
  /\ minibatch_loss = 0
  /\ out = <<>>
  /\ steps = <<>>
  /\ lossSum = 0
  /\ sumAt = <<>>
  /\ before = params
  /\ optSteps = 0

NextForward ==
  \/ ApplyLayer
  \/ RaiseShapeError

SpecForward == InitForward /\ [][NextForward]_vars

(* --------------- the Dropout loop with sampled masks ------------------ *)

\* number of minibatch iterations followed when the masks are sampled
MaxSampledIters == 2

\* the units behind an nn.Dropout(p=0.5) layer: the outputs of the first two
\* Linear layers (tensors 1..4); nothing follows the last Linear layer
DroppableUnits(n) ==
  IF n = "Dropout" THEN {t \in 1..NumTensors(n) : t < NumTensors(n) - 1} ELSE {}

InitDropout ==
  /\ Init
  /\ nb = "Dropout"

\* the first iterations of for i, data in enumerate(trainloader, 0)
NextBatchSampled ==
  /\ i < MaxSampledIters
  /\ NextBatch

\* mutant: a unit that was dropped stays dropped
SampleForwardPass_Permanent ==
  /\ pc = "forward"
  /\ nb = "Dropout"
  /\ \E mask \in SUBSET DroppableUnits(nb) :
       /\ dropped \subseteq mask
       /\ dropped' = mask
  /\ rng' = NextRng(rng)
  /\ outputs' = Forward(params, inputs, dropped')
  /\ steps' = Append(steps, "forward")
  /\ pc' = "loss"
  /\ UNCHANGED <<nb, epoch, i, inputs, targets, loss, l1, l2, params, grad,
                 current_loss, minibatch_loss, out, lossSum,
                 sumAt, before>>
  /\ UNCHANGED optSteps
  /\ UNCHANGED shapeVars

\* outputs = mlp(inputs) in training mode: each nn.Dropout layer draws a
\* fresh Bernoulli mask, any subset of its units may be zeroed
SampleForwardPass ==
  /\ pc = "forward"
  /\ nb = "Dropout"
  /\ \E mask \in SUBSET DroppableUnits(nb) : dropped' = mask
  /\ rng' = NextRng(rng)
  /\ outputs' = Forward(params, inputs, dropped')
  /\ steps' = Append(steps, "forward")
  /\ pc' = "loss"
  /\ UNCHANGED <<nb, epoch, i, inputs, targets, loss, l1, l2, params, grad,
                 current_loss, minibatch_loss, out, lossSum,
                 sumAt, before>>
  /\ UNCHANGED optSteps
  /\ UNCHANGED shapeVars

NextDropout ==
  \/ StartEpoch
  \/ NextBatchSampled
  \/ ZeroGrad
  \/ SampleForwardPass
  \/ ComputeLoss
  \/ Backward
  \/ OptimizerStep
  \/ AccumulateStatistics

SpecDropout == InitDropout /\ [][NextDropout]_vars

(* ---------------- the training cell with failing steps ---------------- *)

\* the positions inside one iteration of the minibatch loop
IterationSteps ==
  {"batch", "zero_grad", "forward", "loss", "penalty", "add_penalty",
   "backward", "step", "stats"}

\* mutant: the failure is caught around the loops and the final print runs
Raise_ThenFinish ==
  /\ pc \in IterationSteps
  /\ pc = "batch" => i < NumBatches(nb)
  /\ out' = Append(out, [kind |-> "finished", idx |-> 0, num |-> 0, den |-> 1,
                         l1 |-> 0, l2 |-> 0])
  /\ pc' = "done"
  /\ UNCHANGED <<nb, rng, epoch, i, inputs, targets, dropped, outputs, loss,
                 l1, l2, params, grad, current_loss, minibatch_loss, steps,
                 lossSum, sumAt, before>>
  /\ UNCHANGED optSteps
  /\ UNCHANGED shapeVars

\* a statement of the iteration (loading the minibatch, forward, loss,
\* penalty, backward, optimizer step, statistics) raises: no try / except
\* encloses it, the exception leaves both loops and ends the script
Raise ==
  /\ pc \in IterationSteps
  /\ pc = "batch" => i < NumBatches(nb)
  /\ pc' = "failed"
  /\ UNCHANGED <<nb, rng, epoch, i, inputs, targets, dropped, outputs, loss,
                 l1, l2, params, grad, current_loss, minibatch_loss, out, steps,
                 lossSum, sumAt, before>>
  /\ UNCHANGED optSteps
  /\ UNCHANGED shapeVars

NextFailing ==
  \/ Next
  \/ Raise

SpecFailing == Init /\ [][NextFailing]_vars

(* ----------------------- operators of the claims ---------------------- *)

\* the statements of one iteration of the loop body, in source order
ExpectedSteps(n) ==
  IF n \in PenaltyNotebooks
    THEN <<"zero_grad", "forward", "loss", "penalty", "add_penalty",
           "backward", "step">>
    ELSE <<"zero_grad", "forward", "loss", "backward", "step">>

IsPrefix(s, t) == Len(s) <= Len(t) /\ s = SubSeq(t, 1, Len(s))

Occurrences(s, x) == Cardinality({k \in 1..Len(s) : s[k] = x})

\* sum over every scalar entry of every tensor, tensor by tensor
RECURSIVE AbsSumAll(_)
AbsSumAll(p) ==
  IF p = <<>> THEN 0
  ELSE LET t == Head(p)
       IN (IF t = <<>> THEN 0
           ELSE Abs(Head(t)) + AbsSumAll(<<Tail(t)>>)) + AbsSumAll(Tail(p))

RECURSIVE SquareSumAll(_)
SquareSumAll(p) ==
  IF p = <<>> THEN 0
  ELSE LET t == Head(p)
       IN (IF t = <<>> THEN 0
           ELSE Head(t) * Head(t) + SquareSumAll(<<Tail(t)>>))
          + SquareSumAll(Tail(p))

\* the loss value handed to backward() is in place from "backward" on
LossIsFinal == pc \in {"backward", "step", "stats"}

(* -------------------------------- C1 ---------------------------------- *)

\* C1: in every training loop each iteration executes zero_grad, forward,
\* loss, (penalty, add penalty,) backward, optimizer step exactly once and in
\* this order: the statements executed so far in an iteration are always a
\* prefix of that list, the whole list has been executed when the statistics
\* block is reached, and an optimizer step has a zero_grad, a forward pass
\* and a backward pass of the same iteration before it.
C1_StepOrder ==
  /\ IsPrefix(steps, ExpectedSteps(nb))
  /\ pc = "stats" => steps = ExpectedSteps(nb)
  /\ pc \in {"zero_grad", "forward", "loss", "penalty", "add_penalty",
             "backward", "step"}
       => Len(steps) < Len(ExpectedSteps(nb))
            /\ ExpectedSteps(nb)[Len(steps) + 1] = pc
  /\ Occurrences(steps, "step") = 1
       => /\ Occurrences(steps, "zero_grad") = 1
          /\ Occurrences(steps, "forward") = 1
          /\ Occurrences(steps, "backward") = 1
          /\ params = OptimizerUpdate(nb, before, grad)

C1_Witness ==
  /\ nb = "ElasticNet"
  /\ pc = "stats"
  /\ epoch = 0
  /\ i = 2
  /\ steps = ExpectedSteps(nb)
  /\ params # before

(* -------------------------------- C2 ---------------------------------- *)

\* C2: in the L1 notebook the loss that is backpropagated equals the cross
\* entropy of the minibatch plus 1.0 times the sum of |w| over every scalar
\* parameter, the parameters being those before the optimizer step of the
\* iteration.
C2_L1Loss ==
  nb = "L1" /\ LossIsFinal
    => /\ loss = CrossEntropy(outputs, targets) + Scale * AbsSumAll(before)
       /\ l1 = Scale * AbsSumAll(before)
       /\ pc \in {"backward", "step"} => params = before

C2_Witness ==
  /\ nb = "L1"
  /\ pc = "stats"
  /\ CrossEntropy(outputs, targets) > 0
  /\ l1 > 0
  /\ AbsSumAll(params) # AbsSumAll(before)
  /\ \E a \in 1..Len(before) : \E k \in 1..Len(before[a]) : before[a][k] < 0

(* -------------------------------- C3 ---------------------------------- *)

\* C3: in the L2 notebook the loss that is backpropagated equals the cross
\* entropy of the minibatch plus 1.0 times the sum of the squares of every
\* scalar parameter (squares, not absolute values).
C3_L2Loss ==
  nb = "L2" /\ LossIsFinal
    => /\ loss = CrossEntropy(outputs, targets) + Scale * SquareSumAll(before)
       /\ l2 = Scale * SquareSumAll(before)
       /\ pc \in {"backward", "step"} => params = before

C3_Witness ==
  /\ nb = "L2"
  /\ pc = "stats"
  /\ CrossEntropy(outputs, targets) > 0
  /\ SquareSumAll(before) # AbsSumAll(before)
  /\ SquareSumAll(params) # SquareSumAll(before)

(* -------------------------------- C4 ---------------------------------- *)

\* C4: in the Elastic Net notebook the loss that is backpropagated equals
\* the cross entropy plus 0.3 * sum |w| plus 0.7 * sum w^2, the two weights
\* sum to 1.0, and both sums are over the parameters before the optimizer
\* step of the iteration.
C4_ElasticNetLoss ==
  nb = "ElasticNet" /\ LossIsFinal
    => /\ loss = CrossEntropy(outputs, targets)
                   + 3 * AbsSumAll(before) + 7 * SquareSumAll(before)
       /\ l1 = 3 * AbsSumAll(before)
       /\ l2 = 7 * SquareSumAll(before)
       /\ L1Weight(nb) + L2Weight(nb) = Scale
       /\ pc \in {"backward", "step"} => params = before

C4_Witness ==
  /\ nb = "ElasticNet"
  /\ pc = "stats"
  /\ CrossEntropy(outputs, targets) > 0
  /\ l1 > 0
  /\ l2 > 0
  /\ 7 * l1 # 3 * l2
  /\ params # before

(* -------------------------------- C5 ---------------------------------- *)

LastLine == out[Len(out)]

\* the sum of the losses of minibatches 500*(k-1)+1 .. 500*k of this epoch:
\* the difference of the sums over 1 .. 500*k and over 1 .. 500*(k-1)
WindowSum(k) == sumAt[k] - (IF k = 1 THEN 0 ELSE sumAt[k - 1])

\* the sum of the losses of the minibatches after the last multiple of 500
TailSum == lossSum - (IF sumAt = <<>> THEN 0 ELSE sumAt[Len(sumAt)])

\* the iteration that has just ended had a 1-based index that is a
\* multiple of 500
JustPrinted == pc = "batch" /\ i > 0 /\ i % 500 = 0

WithoutPenalty(s) == SelectSeq(s, LAMBDA x : x \notin {"penalty", "add_penalty"})

CountKind(o, kd) == Cardinality({k \in 1..Len(o) : o[k].kind = kd})

\* what the four MLP loops have in common: the number of epochs and of
\* minibatches, the optimizer class and learning rate, the statements of an
\* iteration apart from the penalty, and the trigger of the statistics line
C5_CommonLoop ==
  /\ \A n \in MLPNotebooks :
       /\ OptimizerConfig(n).kind = OptimizerConfig("L1").kind
       /\ OptimizerConfig(n).lr = OptimizerConfig("L1").lr
  /\ pc = "done" => epoch = 5 /\ CountKind(out, "epoch") = 5
  /\ pc = "epoch" /\ epoch >= 1 => i = 938
  /\ pc = "stats"
       => WithoutPenalty(steps) = <<"zero_grad", "forward", "loss",
                                    "backward", "step">>
  /\ pc = "batch" /\ i > 0
       => ((LastLine.kind = "loss" /\ LastLine.idx = i) <=> i % 500 = 0)

\* C5 (as stated): the L1, L2, Elastic Net and Dropout loops are identical
\* apart from the regularization, so every one of them reports the same
\* statistic at the same points: the running loss, i.e. the mean of the
\* losses of the last 500 minibatches.
C5_SameStatistic ==
  nb \in MLPNotebooks
    => /\ C5_CommonLoop
       /\ JustPrinted
            => LastLine.num * 500
                 = LastLine.den * WindowSum(i \div 500)

\* C5 (amended): the four loops agree in epochs, minibatches, optimizer
\* class and learning rate, statements per iteration and print trigger, but
\* not in the reported quantity: L1, L2 and Elastic Net print the loss of
\* the single minibatch 500 (penalty included), Dropout prints the mean of
\* the losses of minibatches 1..500.
C5_SameLoopDifferentStatistic ==
  nb \in MLPNotebooks
    => /\ C5_CommonLoop
       /\ JustPrinted
            => IF nb = "Dropout"
                 THEN /\ LastLine.den = 500
                      /\ LastLine.num = WindowSum(i \div 500)
                 ELSE /\ LastLine.den = 1
                      /\ LastLine.num = loss
                      /\ LastLine.num = minibatch_loss

C5_Witness ==
  /\ nb = "L2"
  /\ JustPrinted
  /\ epoch = 0
  /\ LastLine.den = 1
  /\ LastLine.num * 500 # WindowSum(i \div 500)

(* -------------------------------- C6 ---------------------------------- *)

\* C6: in the ConvNet and Dropout loops, when the line of minibatch 500*k
\* is printed the accumulator holds the sum of the losses of minibatches
\* 500*(k-1)+1 .. 500*k of that epoch, the printed value is that sum divided
\* by 500, and the accumulator is 0 right after each print and at the start
\* of each epoch; in between it holds the sum of the losses since then.
C6_RunningLoss ==
  nb \in AccumulatingNotebooks /\ pc = "batch"
    => /\ Len(sumAt) = i \div 500
       /\ current_loss = TailSum
       /\ i = 0 => current_loss = 0
       /\ JustPrinted
            => /\ LastLine.kind = "loss"
               /\ LastLine.idx = i
               /\ LastLine.num = WindowSum(i \div 500)
               /\ LastLine.den = 500
               /\ current_loss = 0

C6_Witness ==
  /\ nb = "ConvNet"
  /\ JustPrinted
  /\ epoch = 0
  /\ i = 1000
  /\ LastLine.num > 0
  /\ LastLine.num # sumAt[1]
  /\ LastLine.num # sumAt[2]

(* -------------------------------- C7 ---------------------------------- *)

\* the lines of one epoch in which n minibatches have been completed
EpochBlock(e, n) ==
  <<(<<"epoch", e>>)>> \o [j \in 1..(n \div 500) |-> <<"loss", 500 * j>>]

RECURSIVE EpochBlocks(_, _)
EpochBlocks(e, n) ==
  IF e = 0 THEN <<>> ELSE EpochBlocks(e - 1, n) \o EpochBlock(e, n)

Outline(o) == [k \in 1..Len(o) |-> <<o[k].kind, o[k].idx>>]

DefaultCtor == [num_of_input_channels |-> 1, num_of_classes |-> 10]

\* C8: for a 1-channel 28 x 28 input the two Conv2d layers of ConvNet
\* produce 26 x 26 and then 24 x 24 feature maps, the latter with 5
\* channels; the flattened vector has 24 * 24 * 5 = 2880 entries, which is
\* the in-features of the first Linear layer, and the forward pass ends,
\* without a shape error, with 10 outputs.
C8_ConvNetShapes ==
  net = "ConvNet" /\ input = <<1, 28, 28>>
    => /\ ~raised
       /\ Len(summary) >= 1 => summary[1].shape = <<10, 26, 26>>
       /\ Len(summary) >= 3 => summary[3].shape = <<5, 24, 24>>
       /\ Len(summary) >= 5
            => /\ summary[5].type = "Flatten"
               /\ summary[5].shape = <<2880>>
               /\ Layers[6].type = "Linear"
               /\ Layers[6].in = 2880
       /\ totals # <<>> => Len(summary) = 10 /\ summary[10].shape = <<10>>

C8_Witness ==
  /\ net = "ConvNet"
  /\ input = <<1, 28, 28>>
  /\ totals # <<>>
  /\ Len(summary) = 10
  /\ shape = <<10>>

(* -------------------------------- C9 ---------------------------------- *)

\* the side of the feature map after every Conv2d / MaxPool2d row
SpatialSizes(rows) ==
  LET sel == SelectSeq(rows, LAMBDA r : r.type \in {"Conv2d", "MaxPool2d"})
  IN [k \in 1..Len(sel) |-> sel[k].shape[2]]

\* C9: for a 1-channel 28 x 28 input the side after the Conv2d / MaxPool2d
\* layers of ConvNet2 is 26, 13, 11, 5, 5, 2, 2, 1 (square maps), the
\* flattened vector has 64 entries, the in-features of Linear(64, 128), and
\* the network ends, without a shape error, with num_of_classes outputs.
C9_ConvNet2Shapes ==
  net = "ConvNet2" /\ input = <<1, 28, 28>> /\ ctor.num_of_input_channels = 1
    => /\ ~raised
       /\ SpatialSizes(summary)
            = SubSeq(<<26, 13, 11, 5, 5, 2, 2, 1>>, 1,
                     Len(SpatialSizes(summary)))
       /\ \A k \in 1..Len(summary) :
            Len(summary[k].shape) = 3
              => summary[k].shape[2] = summary[k].shape[3]
       /\ Len(summary) >= 13
            => /\ summary[13].type = "Flatten"
               /\ summary[13].shape = <<64>>
               /\ summary[12].shape = <<64, 1, 1>>
               /\ Layers[14] = Linear(64, 128)
       /\ totals # <<>>
            => /\ Len(summary) = 17
               /\ Len(SpatialSizes(summary)) = 8
               /\ summary[17].shape = << ctor.num_of_classes >>
               /\ ctor = DefaultCtor => summary[17].shape = <<10>>

C9_Witness ==
  /\ net = "ConvNet2"
  /\ input = <<1, 28, 28>>
  /\ ctor = DefaultCtor
  /\ totals # <<>>
  /\ SpatialSizes(summary) = <<26, 13, 11, 5, 5, 2, 2, 1>>
  /\ shape = <<10>>

(* -------------------------------- C10 --------------------------------- *)

\* the closed form of the claim for the parameters of one layer
ClaimedParams(L) ==
  CASE L.type = "Conv2d" -> (L.in * L.k * L.k + 1) * L.out
    [] L.type = "Linear" -> (L.in + 1) * L.out
    [] OTHER -> 0

ParamColumn(rows) == [k \in 1..Len(rows) |-> rows[k].params]

\* C10: every row of the summary has (in_channels * k * k + 1) *
\* out_channels parameters for Conv2d, (in_features + 1) * out_features for
\* Linear and 0 for ReLU, MaxPool2d, Flatten and Dropout; the total is the
\* sum of the rows, 100 + 455 + 184384 + 2080 + 330 = 187349 for ConvNet and
\* 320 + 18496 + 73856 + 73792 + 8320 + 1290 = 176074 for ConvNet2 (default
\* arguments), all of them trainable.
C10_ParamCounts ==
  /\ \A k \in 1..Len(summary) : summary[k].params = ClaimedParams(Layers[k])
  /\ totals # <<>>
       => /\ totals.total = SumSeq(ParamColumn(summary))
          /\ totals.trainable = totals.total
          /\ totals.non_trainable = 0
          /\ net = "ConvNet"
               => /\ ParamColumn(summary)
                       = <<100, 0, 455, 0, 0, 184384, 0, 2080, 0, 330>>
                  /\ totals.total = 187349
          /\ net = "ConvNet2" /\ ctor = DefaultCtor
               => /\ ParamColumn(summary)
                       = <<320, 0, 0, 18496, 0, 0, 73856, 0, 0, 73792, 0, 0,
                           0, 8320, 0, 0, 1290>>
                  /\ totals.total = 176074

C10_Witness ==
  /\ net = "ConvNet2"
  /\ ctor = DefaultCtor
  /\ input = <<1, 28, 28>>
  /\ totals # <<>>
  /\ totals.total = 176074

(* -------------------------------- C11 --------------------------------- *)

\* C11: in the L1, L2 and Elastic Net loops a printed line shows the loss of
\* that single minibatch, penalty included, and the penalty component(s)
\* that were added to it: the printed total minus the printed components is
\* the cross entropy of the minibatch, and the printed components are those
\* of the parameters before the optimizer step of the iteration.
C11_PrintedComponents ==
  nb \in PenaltyNotebooks /\ JustPrinted
    => /\ LastLine.kind = "loss"
       /\ LastLine.idx = i
       /\ LastLine.den = 1
       /\ LastLine.num = loss
       /\ LastLine.num - LastLine.l1 - LastLine.l2
            = CrossEntropy(outputs, targets)
       /\ LastLine.l1 = L1Weight(nb) * AbsSumAll(before)
       /\ LastLine.l2 = L2Weight(nb) * SquareSumAll(before)

C11_Witness ==
  /\ nb = "ElasticNet"
  /\ JustPrinted
  /\ epoch = 0
  /\ LastLine.l1 > 0
  /\ LastLine.l2 > 0
  /\ LastLine.num > LastLine.l1 + LastLine.l2
  /\ \/ LastLine.l1 # L1Weight(nb) * AbsSumAll(params)
     \/ LastLine.l2 # L2Weight(nb) * SquareSumAll(params)

(* -------------------------------- C13 --------------------------------- *)

\* C13: in the training loop of the Dropout notebook statistics are printed
\* after every iteration of the minibatch loop: when an iteration has ended,
\* the last printed line is the statistics line of that iteration.
C13_PrintEveryIteration ==
  nb = "Dropout" /\ pc = "batch" /\ i > 0
    => /\ LastLine.kind = "loss"
       /\ LastLine.idx = i

(* -------------------------------- C14 --------------------------------- *)

IsParametrised(L) == L.type \in {"Conv2d", "Linear"}

\* the positions of the parametrised layers of a stack, in order
ParametrisedAt(Ls) == {k \in 1..Len(Ls) : IsParametrised(Ls[k])}

\* the number of features a parametrised layer reads from an input of
\* shape sh: the channels for Conv2d, the last dimension for Linear
FeaturesRead(L, sh) == IF L.type = "Conv2d" THEN sh[1] ELSE sh[Len(sh)]

\* C15: every layer stack of the repository (the three plain MLPs, the
\* Dropout MLP, ConvNet, ConvNet2 as constructed by default) is
\* dimensionally consistent on a 1 x 28 x 28 input: the forward pass never
\* raises; every parametrised layer is reached with exactly the number of
\* inputs it declares, a Linear layer on a flattened vector (784 features
\* at the first Linear layer of the MLPs); a ReLU sits between every two
\* consecutive parametrised layers; the last layer of the stack is a Linear
\* layer with 10 outputs and the pass ends with 10 values.
C15_DimensionallyConsistent ==
  net \in Networks /\ input = <<1, 28, 28>> /\ ctor = DefaultCtor
    => /\ ~raised
       /\ layer < Len(Layers) /\ IsParametrised(Layers[layer + 1])
            => /\ FeaturesRead(Layers[layer + 1], shape) = Layers[layer + 1].in
               /\ Layers[layer + 1].type = "Linear" => Len(shape) = 1
               /\ Layers[layer + 1].type = "Conv2d" => Len(shape) = 3
       /\ net \notin {"ConvNet", "ConvNet2"} /\ layer = 1
            => shape = <<784>> /\ Layers[2] = Linear(784, 64)
       /\ \A a, b \in ParametrisedAt(Layers) :
            a < b => \E c \in (a + 1)..(b - 1) : Layers[c].type = "ReLU"
       /\ Layers[Len(Layers)].type = "Linear"
       /\ Layers[Len(Layers)].out = 10
       /\ layer = Len(Layers) => shape = <<10>>

\* the forward pass of the Dropout MLP has run through all of its layers
C15_Witness ==
  /\ net = "Dropout"
  /\ input = <<1, 28, 28>>
  /\ layer = Len(Layers)
  /\ Len(summary) = 8
  /\ summary[2].shape = <<64>>
  /\ summary[5].shape = <<32>>
  /\ shape = <<10>>
  /\ ~raised

(* -------------------------------- C16 --------------------------------- *)

\* the fixed number of epochs the claim gives for each notebook
ClaimedEpochs(n) == IF n = "ConvNet" THEN 3 ELSE 5

\* every epoch so far has visited every minibatch of the loader once, each
\* with one optimizer step; `Starting epoch' has been printed once per
\* epoch begun
EveryMinibatchOnce ==
  /\ i <= NumBatches(nb)
  /\ pc = "epoch" => /\ optSteps = epoch * NumBatches(nb)
                     /\ epoch > 0 => i = NumBatches(nb)
                     /\ CountKind(out, "epoch") = epoch
  /\ pc = "batch" => /\ optSteps = epoch * NumBatches(nb) + i
                     /\ CountKind(out, "epoch") = epoch + 1

\* 'Training process has finished.' is printed once, as the last line,
\* after the claimed number of epochs, and not before
FinishedOnceAtTheEnd ==
  /\ pc = "done" => /\ epoch = ClaimedEpochs(nb)
                    /\ optSteps = ClaimedEpochs(nb) * NumBatches(nb)
                    /\ CountKind(out, "epoch") = ClaimedEpochs(nb)
                    /\ CountKind(out, "finished") = 1
                    /\ LastLine.kind = "finished"
  /\ pc # "done" => CountKind(out, "finished") = 0

\* C16: every training run terminates: the outer loop runs 3 epochs in the
\* ConvNet notebook and exactly 5 in the MLP notebooks, each epoch visits
\* every minibatch of the data loader exactly once, and 'Training process
\* has finished.' is then printed exactly once, as the last line of output.
C16_Terminates ==
  /\ <>(pc = "done")
  /\ [](EveryMinibatchOnce /\ FinishedOnceAtTheEnd)

\* the Dropout run has ended after 5 epochs of 938 minibatches
C16_Witness ==
  /\ nb = "Dropout"
  /\ pc = "done"
  /\ epoch = 5
  /\ optSteps = 5 * 938
  /\ LastLine.kind = "finished"

(* -------------------------------- C17 --------------------------------- *)

\* C17: gradients never accumulate across minibatches: when optimizer.step()
\* is about to run, zero_grad has been called once, first in the iteration,
\* and backward once, and the .grad of every parameter is the gradient of
\* the current iteration's (in the penalty notebooks augmented) loss alone,
\* with nothing left from an earlier minibatch or epoch.
C17_NoGradientAccumulation ==
  pc = "step"
    => /\ steps[1] = "zero_grad"
       /\ Occurrences(steps, "zero_grad") = 1
       /\ Occurrences(steps, "backward") = 1
       /\ grad = LossGradient(nb, params, inputs, outputs, targets, dropped,
                              nb \in PenaltyNotebooks)

\* the second optimizer step of the L2 run is about to consume a gradient
\* that is not zero
C17_Witness ==
  /\ nb = "L2"
  /\ pc = "step"
  /\ epoch = 0
  /\ i = 1
  /\ optSteps = 1
  /\ grad # ZeroTensors(nb)

(* -------------------------------- C18 --------------------------------- *)

\* the tensors of p taken in the order f
Reordered(p, f) == [t \in 1..Len(p) |-> p[f[t]]]

\* the per-tensor sums, added up
PerTensorL1(p) == SumSeq([t \in 1..Len(p) |-> compute_l1_loss(p[t])])
PerTensorL2(p) == SumSeq([t \in 1..Len(p) |-> compute_l2_loss(p[t])])

\* C18: the hand-rolled penalty is summed over every parameter tensor of
\* the model, the three weight matrices and the three bias vectors: the
\* concatenation holds every scalar of every tensor exactly once, the sum
\* of |w| (of w^2) over it is the sum of the per-tensor sums, and it is the
\* same for every order in which the tensors are concatenated (the 720
\* orders are tried on the parameters of every iteration of the first
\* epoch, the other parts hold in every iteration of the run).
C18_PenaltyOverAllTensors ==
  nb \in PenaltyNotebooks /\ pc = "add_penalty"
    => /\ Len(params) = 2 * Cardinality(ParametrisedAt(MLPLayers))
       /\ Len(params) = 6
       /\ Len(Cat(params)) = SumSeq([t \in 1..Len(params) |-> Len(params[t])])
       /\ \A t \in 1..Len(params) : \A k \in 1..Len(params[t]) :
            Cat(params)[(t - 1) * TensorLen + k] = params[t][k]
       /\ nb \in {"L1", "ElasticNet"}
            => /\ l1 = L1Weight(nb) * PerTensorL1(params)
               /\ epoch = 0
                    => \A f \in Permutations(1..Len(params)) :
                         L1Weight(nb)
                           * compute_l1_loss(Cat(Reordered(params, f))) = l1
       /\ nb \in {"L2", "ElasticNet"}
            => /\ l2 = L2Weight(nb) * PerTensorL2(params)
               /\ epoch = 0
                    => \A f \in Permutations(1..Len(params)) :
                         L2Weight(nb)
                           * compute_l2_loss(Cat(Reordered(params, f))) = l2

\* both penalties of an Elastic Net iteration have been computed, and the
\* bias vectors contribute to both
C18_Witness ==
  /\ nb = "ElasticNet"
  /\ pc = "add_penalty"
  /\ l1 > 0
  /\ l2 > 0
  /\ \E t \in {2, 4, 6} : compute_l1_loss(params[t]) > 0
  /\ \E t, u \in 1..Len(params) : t < u /\ params[t] # params[u]

(* -------------------------------- C19 --------------------------------- *)

\* C19: the repository handles no failure of its own: once a step of an
\* iteration has failed the run has stopped (no statement runs any more)
\* and 'Training process has finished.' is not in the output; that line in
\* the output implies that the run ended normally after all E epochs, every
\* minibatch iteration of each having run with its optimizer step; and no
\* iteration is ever counted as completed without its optimizer step.
C19_NoFailureHandling ==
  /\ pc = "failed" => /\ CountKind(out, "finished") = 0
                      /\ ~ENABLED NextFailing
  /\ CountKind(out, "finished") > 0
       => /\ pc = "done"
          /\ epoch = NumEpochs(nb)
          /\ optSteps = NumEpochs(nb) * NumBatches(nb)
          /\ CountKind(out, "epoch") = NumEpochs(nb)
  /\ pc \in {"batch", "epoch"}
       => optSteps = epoch * NumBatches(nb) + (IF pc = "batch" THEN i ELSE 0)

\* optimizer.step() of the second Elastic Net iteration has raised
C19_Witness ==
  /\ nb = "ElasticNet"
  /\ pc = "failed"
  /\ epoch = 0
  /\ i = 1
  /\ optSteps = 1
  /\ steps = <<"zero_grad", "forward", "loss", "penalty", "add_penalty",
               "backward">>
  /\ out = <<[kind |-> "epoch", idx |-> 1, num |-> 0, den |-> 1,
              l1 |-> 0, l2 |-> 0]>>

(* -------------------------------- C20 --------------------------------- *)

\* every entry of every tensor is zero
AllZero(p) == \A t \in 1..Len(p) : \A k \in 1..Len(p[t]) : p[t][k] = 0

\* the two penalty functions on every small parameter vector: never
\* negative, and zero exactly on the zero vector
PenaltiesOfSmallVectors ==
  \A w \in [1..TensorLen -> (-MaxW)..MaxW] :
    /\ compute_l1_loss(w) >= 0
    /\ compute_l2_loss(w) >= 0
    /\ compute_l1_loss(w) = 0 <=> \A k \in 1..TensorLen : w[k] = 0
    /\ compute_l2_loss(w) = 0 <=> \A k \in 1..TensorLen : w[k] = 0

\* C20: the L1 and L2 penalty terms are never negative and are zero exactly
\* when every parameter is zero, for the parameters of every iteration and
\* for every small parameter vector; the penalty weights are positive, and
\* in the L1, L2 and Elastic Net loops the augmented loss of every
\* minibatch is at least its cross-entropy loss.
C20_PenaltyNonNegative ==
  /\ PenaltiesOfSmallVectors
  /\ nb \in PenaltyNotebooks /\ pc = "add_penalty"
       => /\ compute_l1_loss(Cat(params)) >= 0
          /\ compute_l2_loss(Cat(params)) >= 0
          /\ compute_l1_loss(Cat(params)) = 0 <=> AllZero(params)
          /\ compute_l2_loss(Cat(params)) = 0 <=> AllZero(params)
          /\ L1Weight(nb) >= 0 /\ L2Weight(nb) >= 0
          /\ L1Weight(nb) + L2Weight(nb) > 0
          /\ nb \in {"L1", "ElasticNet"} => L1Weight(nb) > 0
          /\ nb \in {"L2", "ElasticNet"} => L2Weight(nb) > 0
  /\ nb \in PenaltyNotebooks /\ LossIsFinal
       => /\ l1 >= 0
          /\ l2 >= 0
          /\ loss >= CrossEntropy(outputs, targets)
          /\ pc # "stats" => (loss = CrossEntropy(outputs, targets)
                                <=> AllZero(params))

\* an Elastic Net iteration with negative parameters whose augmented loss
\* is strictly above its cross-entropy loss
C20_Witness ==
  /\ nb = "ElasticNet"
  /\ pc = "backward"
  /\ \E t \in 1..Len(params) : \E k \in 1..Len(params[t]) : params[t][k] < 0
  /\ l1 > 0
  /\ l2 > 0
  /\ loss > CrossEntropy(outputs, targets)
====
